---- MODULE Spec2Model ----
(***************************************************************************)
(* Session-credential lifecycle (src/auth.py, src/main.py), the update     *)
(* flag store (src/redis_funcs.py) and the reservation update stream       *)
(* (src/main.py) of the reservation backend.                               *)
(*                                                                         *)
(* Time is counted in clock ticks, TicksPerSecond of them to a second, so  *)
(* that the truncation of "exp" to whole seconds done by jwt.encode is     *)
(* visible.  Python values whose type decides the behaviour carry a type   *)
(* tag ([type |-> "datetime", v |-> ticks], [type |-> "int", v |-> n]).    *)
(***************************************************************************)
EXTENDS Integers, Sequences, FiniteSets, TLC

\* ------------------------------------------------------------------ bounds
TicksPerSecond == 2
MaxAdvance == 3
MaxOps == 4

\* --------------------------------------------------- constants of auth.py
ACCESS_TOKEN_EXPIRE_MINUTES == 15
REFRESH_TOKEN_EXPIRE_DAYS == 30
REFRESH_TOKEN_RENEW_DAYS == 7
SECRET_KEY == "SESSION_SECRET"
None == "None"

\* class Role of classes.py
Role == {"admin", "owner", "employee"}

\* now: the clock, in ticks; nadv: how often it was advanced
\* jar: the client's cookies, with the time and principal of their issue
\* resp: the last request and the response to it
VARIABLES now, nadv, jar, resp

\* redis_db: the keys of the redis server, <<>> for a key that is absent
\* call: each store client's position inside check_for_updates
\* log: the completed calls of the flag store's two functions, in order
VARIABLES redis_db, call, log

\* chan: the update streams (event_generator of each connection)
\* sse_tasks: the module-level set of main.py
\* lifespan_pc: where the lifespan context manager stands
VARIABLES chan, sse_tasks, lifespan_pc

authvars == <<now, nadv, jar, resp>>
storevars == <<redis_db, call, log>>
ssevars == <<chan, sse_tasks, lifespan_pc>>
othervars == <<storevars, ssevars>>

\* ------------------------------------------------------ python datetime
\* timedelta(days=d, minutes=m), in ticks
timedelta(d, m) == [type |-> "timedelta", v |-> ((d * 24 * 60 + m) * 60) * TicksPerSecond]

\* datetime.utcnow() when the clock shows t
utcnow(t) == [type |-> "datetime", v |-> t]

\* a + b for a datetime and a timedelta
py_add(a, b) ==
    IF a.type = "datetime" /\ b.type = "timedelta"
    THEN [type |-> "datetime", v |-> a.v + b.v]
    ELSE [type |-> "TypeError", v |-> 0]

\* a - b: only datetime - datetime is defined among the types used here;
\* int - datetime raises TypeError
py_sub(a, b) ==
    IF a.type = "datetime" /\ b.type = "datetime"
    THEN [type |-> "timedelta", v |-> a.v - b.v]
    ELSE [type |-> "TypeError", v |-> 0]

\* ----------------------------------------------------------------- tokens
\* A cookie value.  fmt: "none" (cookie absent, cookies.get gives None),
\* "empty" (empty string), "garbage" (not a JWT), "jwt".  exp is <<>> when
\* the claim is absent, else <<seconds since the epoch>>.
NoToken == [fmt |-> "none", sub |-> None, role |-> None, exp |-> <<>>, key |-> None]
EmptyToken == [fmt |-> "empty", sub |-> None, role |-> None, exp |-> <<>>, key |-> None]
Garbage == [fmt |-> "garbage", sub |-> None, role |-> None, exp |-> <<>>, key |-> None]

\* jwt.encode(to_encode, key): a datetime "exp" is written as whole seconds
\* (timegm(exp.utctimetuple()) drops the fraction)
jwt_encode(to_encode, key) ==
    [fmt |-> "jwt", sub |-> to_encode.sub, role |-> to_encode.role,
     exp |-> <<to_encode.exp.v \div TicksPerSecond>>, key |-> key]

\* jwt_decode with the token still accepted at the very instant "exp" names
jwt_decode_late(token, key, t) ==
    IF token.fmt # "jwt" THEN [exc |-> "DecodeError", payload |-> NoToken]
    ELSE IF token.key # key THEN [exc |-> "InvalidSignatureError", payload |-> NoToken]
    ELSE IF token.exp # <<>> /\ token.exp[1] * TicksPerSecond < t
         THEN [exc |-> "ExpiredSignatureError", payload |-> NoToken]
    ELSE [exc |-> "ok", payload |-> token]

\* jwt.decode(token, key) at clock t: signature first, then "exp"; the token
\* is expired when exp <= the current time
jwt_decode(token, key, t) ==
    IF token.fmt # "jwt" THEN [exc |-> "DecodeError", payload |-> NoToken]
    ELSE IF token.key # key THEN [exc |-> "InvalidSignatureError", payload |-> NoToken]
    ELSE IF token.exp # <<>> /\ token.exp[1] * TicksPerSecond <= t
         THEN [exc |-> "ExpiredSignatureError", payload |-> NoToken]
    ELSE [exc |-> "ok", payload |-> token]

\* the exception classes of jwt.exceptions caught in auth.py
InvalidTokenError == {"DecodeError", "InvalidSignatureError", "ExpiredSignatureError"}
PyJWTError == InvalidTokenError

\* create_access_token with the lifetime left out of "exp"
create_access_token_no_ttl(data, t) ==
    jwt_encode([sub |-> data.sub, role |-> data.role, exp |-> utcnow(t)], SECRET_KEY)

create_access_token(data, t) ==
    LET expire == py_add(utcnow(t), timedelta(0, ACCESS_TOKEN_EXPIRE_MINUTES))
    IN  jwt_encode([sub |-> data.sub, role |-> data.role, exp |-> expire], SECRET_KEY)

create_refresh_token(data, t) ==
    LET expire == py_add(utcnow(t), timedelta(REFRESH_TOKEN_EXPIRE_DAYS, 0))
    IN  jwt_encode([sub |-> data.sub, role |-> data.role, exp |-> expire], SECRET_KEY)

\* ------------------------------------------------- results of a function
NoPrincipal == [sub |-> None, role |-> None]

Return(principal, access, refresh) ==
    [exc |-> "ok", status |-> 200, detail |-> "", ret |-> principal,
     access |-> access, refresh |-> refresh]

HTTPException(status_code, detail) ==
    [exc |-> "HTTPException", status |-> status_code, detail |-> detail,
     ret |-> NoPrincipal, access |-> NoToken, refresh |-> NoToken]

\* an exception no handler catches: the framework answers 500
Unhandled(exc) ==
    [exc |-> exc, status |-> 500, detail |-> "Internal Server Error",
     ret |-> NoPrincipal, access |-> NoToken, refresh |-> NoToken]

\* "not token" of python
Falsy(token) == token.fmt \in {"none", "empty"}

\* verify_token without the test for absent claims
verify_token_no_claim_test(token, t) ==
    IF Falsy(token) THEN HTTPException(403, "Token not found")
    ELSE LET d == jwt_decode(token, SECRET_KEY, t) IN
         IF d.exc \in PyJWTError
         THEN HTTPException(403, "Could not validate credentials")
         ELSE Return([sub |-> d.payload.sub, role |-> d.payload.role], NoToken, NoToken)

verify_token(token, t) ==
    IF Falsy(token) THEN HTTPException(403, "Token not found")
    ELSE LET d == jwt_decode(token, SECRET_KEY, t) IN
         IF d.exc \in PyJWTError
         THEN HTTPException(403, "Could not validate credentials")
         ELSE IF d.payload.sub = None \/ d.payload.role = None
         THEN HTTPException(403, "Invalid token")
         ELSE Return([sub |-> d.payload.sub, role |-> d.payload.role], NoToken, NoToken)

\* refresh_token with the two except clauses in the other order
refresh_token_except_order(client_refresh_token, t) ==
    IF Falsy(client_refresh_token) THEN HTTPException(403, "Refresh token not found")
    ELSE LET d == jwt_decode(client_refresh_token, SECRET_KEY, t) IN
         IF d.exc \in InvalidTokenError
         THEN HTTPException(403, "Invalid refresh token")
         ELSE IF d.payload.exp = <<>> THEN Unhandled("KeyError")
         ELSE Unhandled("TypeError")

refresh_token(client_refresh_token, t) ==
    IF Falsy(client_refresh_token) THEN HTTPException(403, "Refresh token not found")
    ELSE LET d == jwt_decode(client_refresh_token, SECRET_KEY, t) IN
         IF d.exc = "ExpiredSignatureError"
         THEN HTTPException(403, "Refresh token expired")
         ELSE IF d.exc \in InvalidTokenError
         THEN HTTPException(403, "Invalid refresh token")
         ELSE IF d.payload.exp = <<>> THEN Unhandled("KeyError")
         ELSE LET remaining == py_sub([type |-> "int", v |-> d.payload.exp[1]], utcnow(t))
                  data == [sub |-> d.payload.sub, role |-> d.payload.role]
              IN  IF remaining.type = "TypeError" THEN Unhandled("TypeError")
                  ELSE IF data.sub = None \/ data.role = None THEN Unhandled("KeyError")
                  ELSE LET new_refresh_token ==
                               IF remaining.v < timedelta(REFRESH_TOKEN_RENEW_DAYS, 0).v
                               THEN create_refresh_token(data, t)
                               ELSE client_refresh_token
                       IN  Return(data, create_access_token(data, t), new_refresh_token)

\* ------------------------------------------------------------- accounts
\* bcrypt.hashpw / bcrypt.checkpw (the salt plays no part in the outcome)
hashpw(password) == <<"bcrypt", password>>
checkpw(password, hashed) == hashpw(password) = hashed

\* db["admin_accounts"]: the rows, by restaurant_id
accounts_table == [r \in {"r1"} |-> [hashed_pw |-> hashpw("pw1")]]

\* accounts_table.find_one(restaurant_id=...): the row, or None
find_one(restaurant_id) ==
    IF restaurant_id \in DOMAIN accounts_table
    THEN [found |-> TRUE, hashed_pw |-> accounts_table[restaurant_id].hashed_pw]
    ELSE [found |-> FALSE, hashed_pw |-> <<>>]

\* None["hashed_pw"] raises TypeError
verify_password(restaurant_id, plain_password) ==
    LET row == find_one(restaurant_id) IN
    IF ~row.found THEN [exc |-> "TypeError", value |-> FALSE]
    ELSE [exc |-> "ok", value |-> checkpw(plain_password, row.hashed_pw)]

\* ------------------------------------------------------------- requests
RestaurantIds == {"r1", "ghost"}
Passwords == {"pw1", "wrong"}
RoleInputs == {"admin", "guest"}
LoginPayload == [restaurant_id : RestaurantIds, role : RoleInputs, password : Passwords]
NoPayload == [restaurant_id |-> None, role |-> None, password |-> None]

BadSignature == [fmt |-> "jwt", sub |-> "r1", role |-> "admin", exp |-> <<>>, key |-> "other"]
NoSubject == [fmt |-> "jwt", sub |-> None, role |-> "admin", exp |-> <<>>, key |-> SECRET_KEY]
NoRole == [fmt |-> "jwt", sub |-> "r1", role |-> None, exp |-> <<>>, key |-> SECRET_KEY]
NoExpiry == [fmt |-> "jwt", sub |-> "r1", role |-> "admin", exp |-> <<>>, key |-> SECRET_KEY]
\* cookie values a client can send besides the ones it was given
ForgedTokens == {NoToken, EmptyToken, Garbage, BadSignature, NoSubject, NoRole, NoExpiry}

NoJar == [access |-> NoToken, refresh |-> NoToken, access_at |-> 0, refresh_at |-> 0,
          principal |-> NoPrincipal]

\* A request and its response: the handler (op), the clock at the request
\* (at), the cookie (req) or body (inp) sent, the outcome (out), whether the
\* handler body ran (body) and the cookies response.set_cookie set.
Response(op, req, inp, out, body, access, refresh) ==
    [op |-> op, at |-> now, req |-> req, inp |-> inp, out |-> out, body |-> body,
     set_access |-> access, set_refresh |-> refresh]

\* the clock passes
Delays == {1, timedelta(0, ACCESS_TOKEN_EXPIRE_MINUTES).v - 1,
           timedelta(REFRESH_TOKEN_EXPIRE_DAYS - REFRESH_TOKEN_RENEW_DAYS, 0).v,
           timedelta(REFRESH_TOKEN_RENEW_DAYS, 0).v}

Advance(d) ==
    /\ nadv < MaxAdvance
    /\ now' = now + d
    /\ nadv' = nadv + 1
    /\ UNCHANGED <<jar, resp>>
    /\ UNCHANGED othervars

\* POST /api/login
login_api(login_payload) ==
    LET vp == verify_password(login_payload.restaurant_id, login_payload.password)
        token_data == [sub |-> login_payload.restaurant_id, role |-> login_payload.role]
        out == IF vp.exc # "ok" THEN Unhandled(vp.exc)
               ELSE IF vp.value = FALSE
               THEN HTTPException(401, "Incorrect username or password")
               ELSE Return(NoPrincipal, create_access_token(token_data, now),
                           create_refresh_token(token_data, now))
    IN  /\ resp' = Response("login", NoToken, login_payload, out, TRUE,
                            out.access, out.refresh)
        /\ jar' = IF out.exc = "ok"
                  THEN [access |-> out.access, refresh |-> out.refresh,
                        access_at |-> now, refresh_at |-> now, principal |-> token_data]
                  ELSE jar
        /\ UNCHANGED <<now, nadv>>
        /\ UNCHANGED othervars

\* POST /api/logout
logout_api ==
    /\ resp' = Response("logout", NoToken, NoPayload, Return(NoPrincipal, NoToken, NoToken),
                        TRUE, NoToken, NoToken)
    /\ jar' = [jar EXCEPT !.access = NoToken, !.refresh = NoToken]
    /\ UNCHANGED <<now, nadv>>
    /\ UNCHANGED othervars

\* GET /api/check-token: Depends(verify_token), then the handler body
check_token(access_cookie) ==
    LET session_info == verify_token(access_cookie, now) IN
    /\ resp' = Response("check_token", access_cookie, NoPayload, session_info,
                        session_info.exc = "ok", NoToken, NoToken)
    /\ UNCHANGED <<now, nadv, jar>>
    /\ UNCHANGED othervars

\* POST /api/refresh
refresh_token_api(refresh_cookie) ==
    LET out == refresh_token(refresh_cookie, now) IN
    /\ resp' = Response("refresh", refresh_cookie, NoPayload, out, TRUE,
                        out.access, out.refresh)
    /\ jar' = IF out.exc = "ok"
              THEN [jar EXCEPT !.access = out.access, !.refresh = out.refresh,
                               !.access_at = now,
                               !.refresh_at = IF out.refresh = refresh_cookie THEN @ ELSE now]
              ELSE jar
    /\ UNCHANGED <<now, nadv>>
    /\ UNCHANGED othervars

InitAuth ==
    /\ now \in {0, 1}
    /\ nadv = 0
    /\ jar = NoJar
    /\ resp = [op |-> "none", at |-> 0, req |-> NoToken, inp |-> NoPayload,
               out |-> Return(NoPrincipal, NoToken, NoToken), body |-> FALSE,
               set_access |-> NoToken, set_refresh |-> NoToken]

NextAuth ==
    \/ \E d \in Delays : Advance(d)
    \/ \E p \in LoginPayload : login_api(p)
    \/ logout_api
    \/ \E c \in {jar.access, jar.refresh} \cup ForgedTokens : check_token(c)
    \/ \E c \in {jar.access, jar.refresh} \cup ForgedTokens : refresh_token_api(c)

vars == <<now, nadv, jar, resp, redis_db, call, log, chan, sse_tasks, lifespan_pc>>

\* ---------------------------------------------------------- redis_funcs
Tenants == {"r1", "r2"}
Clients == {"p1", "p2"}

\* one key for all restaurants
flag_key_shared(restaurant_id) == <<"update_flag", "">>

\* f"update_flag:{restaurant_id}"
flag_key(restaurant_id) == <<"update_flag", restaurant_id>>
Keys == {flag_key(r) : r \in Tenants}

\* a str as redis stores and returns it (decode_responses is off): bytes
bytes(s) == <<"b", s>>

\* redis_client.set / get / delete, one command each
redis_set(db, key, value) == [db EXCEPT ![key] = bytes(value)]
redis_get(db, key) == db[key]
\* a delete that removes nothing
redis_delete_nothing(db, key) == db

redis_delete(db, key) == [db EXCEPT ![key] = <<>>]

LogEntry(op, restaurant_id, client, ret) ==
    [op |-> op, rid |-> restaurant_id, client |-> client, ret |-> ret]

\* calls begun; each ends in one entry of the log
Begun == Len(log) + Cardinality({p \in Clients : call[p].pc = "got"})

set_update_flag(restaurant_id) ==
    /\ Begun < MaxOps
    /\ redis_db' = redis_set(redis_db, flag_key(restaurant_id), "1")
    /\ log' = Append(log, LogEntry("set", restaurant_id, "webhook", FALSE))
    /\ UNCHANGED call

\* check_for_updates, line 16: the GET and the comparison with b"1"; the
\* call returns False at once when the flag is not there
check_get(p, restaurant_id) ==
    /\ call[p].pc = "idle"
    /\ Begun < MaxOps
    /\ IF redis_get(redis_db, flag_key(restaurant_id)) = bytes("1")
       THEN /\ call' = [call EXCEPT ![p] = [pc |-> "got", rid |-> restaurant_id]]
            /\ log' = log
       ELSE /\ call' = call
            /\ log' = Append(log, LogEntry("take", restaurant_id, p, FALSE))
    /\ UNCHANGED redis_db

\* check_for_updates, lines 17-18: the DELETE, then return True
check_delete(p) ==
    /\ call[p].pc = "got"
    /\ redis_db' = redis_delete(redis_db, flag_key(call[p].rid))
    /\ log' = Append(log, LogEntry("take", call[p].rid, p, TRUE))
    /\ call' = [call EXCEPT ![p] = [pc |-> "idle", rid |-> None]]

\* check_for_updates that leaves the flag in place
check_for_updates_no_clear(p, restaurant_id) ==
    /\ call[p].pc = "idle"
    /\ Begun < MaxOps
    /\ LET found == redis_get(redis_db, flag_key(restaurant_id)) = bytes("1") IN
       /\ redis_db' = redis_db
       /\ log' = Append(log, LogEntry("take", restaurant_id, p, found))
    /\ UNCHANGED call

\* check_for_updates run from its first line to its return with no other
\* client's command in between
check_for_updates(p, restaurant_id) ==
    /\ call[p].pc = "idle"
    /\ Begun < MaxOps
    /\ LET found == redis_get(redis_db, flag_key(restaurant_id)) = bytes("1") IN
       /\ redis_db' = IF found THEN redis_delete(redis_db, flag_key(restaurant_id))
                      ELSE redis_db
       /\ log' = Append(log, LogEntry("take", restaurant_id, p, found))
    /\ UNCHANGED call

InitStore ==
    /\ redis_db = [k \in Keys |-> <<>>]
    /\ call = [p \in Clients |-> [pc |-> "idle", rid |-> None]]
    /\ log = <<>>

\* ------------------------------------------------------ the update stream
\* A stream is "none" before GET /api/restaurant/reservations/updates opens
\* it, "loop" while event_generator is inside check_for_updates, "yield_update"
\* while it is suspended at the yield of an update event, "sleep" inside
\* asyncio.sleep, "yield_final" while suspended at the yield of the except
\* branch, "closed" once the finally block has run.  cancel: the stream's
\* task was cancelled.  updates / finals: the events pushed to the client.
\* cookie: the access cookie the stream was opened with.
NoStream == [pc |-> "none", rid |-> None, cancel |-> FALSE, updates |-> 0, finals |-> 0,
             cookie |-> NoToken]

\* the access cookies of the clients that open streams
StreamTokens ==
    {create_access_token([sub |-> r, role |-> "admin"], now) : r \in Tenants} \cup {NoToken}

\* GET /api/restaurant/reservations/updates: Depends(verify_token), then the
\* StreamingResponse over event_generator(); nothing is added to sse_tasks
stream_reservations(c, access_cookie) ==
    LET session_info == verify_token(access_cookie, now) IN
    /\ lifespan_pc = "running"
    /\ chan[c].pc = "none"
    /\ chan' = IF session_info.exc = "ok"
               THEN [chan EXCEPT ![c] = [NoStream EXCEPT !.pc = "loop",
                                                         !.rid = session_info.ret.sub,
                                                         !.cookie = access_cookie]]
               ELSE chan
    /\ UNCHANGED <<authvars, storevars, sse_tasks, lifespan_pc>>

\* line 139, first command of check_for_updates; without the flag the
\* generator goes on to asyncio.sleep(1)
event_generator_get(c) ==
    /\ chan[c].pc = "loop"
    /\ check_get(c, chan[c].rid)
    /\ chan' = IF call'[c].pc = "got" THEN chan ELSE [chan EXCEPT ![c].pc = "sleep"]
    /\ UNCHANGED <<authvars, sse_tasks, lifespan_pc>>

\* lines 139-140: check_for_updates returns True, the update event is yielded
event_generator_update(c) ==
    /\ chan[c].pc = "loop"
    /\ check_delete(c)
    /\ chan' = [chan EXCEPT ![c].pc = "yield_update", ![c].updates = @ + 1]
    /\ UNCHANGED <<authvars, sse_tasks, lifespan_pc>>

\* the response asks for the next chunk: the generator runs on to line 141
event_generator_resume(c) ==
    /\ chan[c].pc = "yield_update"
    /\ ~chan[c].cancel
    /\ chan' = [chan EXCEPT ![c].pc = "sleep"]
    /\ UNCHANGED <<authvars, storevars, sse_tasks, lifespan_pc>>

\* a sleep that never ends
event_generator_oversleep(c) ==
    /\ chan[c].pc = "sleep"
    /\ ~chan[c].cancel
    /\ UNCHANGED vars

\* line 141: the sleep ends, next iteration
event_generator_wake(c) ==
    /\ chan[c].pc = "sleep"
    /\ ~chan[c].cancel
    /\ chan' = [chan EXCEPT ![c].pc = "loop"]
    /\ UNCHANGED <<authvars, storevars, sse_tasks, lifespan_pc>>

\* the client goes away: the server cancels the task of the response while
\* it is suspended (in the sleep or in the send of a chunk)
client_disconnect(c) ==
    /\ chan[c].pc \in {"sleep", "yield_update"}
    /\ ~chan[c].cancel
    /\ chan' = [chan EXCEPT ![c].cancel = TRUE]
    /\ UNCHANGED <<authvars, storevars, sse_tasks, lifespan_pc>>

\* an except branch that swallows CancelledError and goes on polling
event_generator_except_continue(c) ==
    /\ chan[c].pc = "sleep"
    /\ chan[c].cancel
    /\ chan' = [chan EXCEPT ![c].pc = "loop"]
    /\ UNCHANGED <<authvars, storevars, sse_tasks, lifespan_pc>>

\* lines 142-144: CancelledError arrives in the sleep; the final event is
\* yielded, and reaches the client or not
event_generator_except(c) ==
    /\ chan[c].pc = "sleep"
    /\ chan[c].cancel
    /\ \E sent \in BOOLEAN :
          chan' = [chan EXCEPT ![c].pc = "yield_final",
                               ![c].finals = IF sent THEN @ + 1 ELSE @]
    /\ UNCHANGED <<authvars, storevars, sse_tasks, lifespan_pc>>

\* lines 145-146: the generator is closed at the yield it is suspended at
\* and the finally block runs; nothing is removed from sse_tasks
event_generator_finally(c) ==
    /\ \/ chan[c].pc = "yield_final"
       \/ chan[c].pc = "yield_update" /\ chan[c].cancel
    /\ chan' = [chan EXCEPT ![c].pc = "closed"]
    /\ UNCHANGED <<authvars, storevars, sse_tasks, lifespan_pc>>

\* lifespan, lines 46-47: the application shuts down; every task in
\* sse_tasks is cancelled
lifespan_cancel ==
    /\ lifespan_pc = "running"
    /\ chan' = [c \in Clients |->
                  IF c \in sse_tasks THEN [chan[c] EXCEPT !.cancel = TRUE] ELSE chan[c]]
    /\ lifespan_pc' = "gather"
    /\ UNCHANGED <<authvars, storevars, sse_tasks>>

\* lifespan, lines 48-49: gather returns once every task in sse_tasks has
\* ended
lifespan_gather ==
    /\ lifespan_pc = "gather"
    /\ \A c \in sse_tasks : chan[c].pc = "closed"
    /\ lifespan_pc' = "done"
    /\ UNCHANGED <<authvars, storevars, chan, sse_tasks>>

InitSSE ==
    /\ chan = [c \in Clients |-> NoStream]
    /\ sse_tasks = {}
    /\ lifespan_pc = "running"

\* the session layer, its clock started on or off a whole second
InitSession == InitAuth /\ InitStore /\ InitSSE

Init == InitSession /\ now = 0

\* one client using the store, call after call
NextSeq ==
    \/ \E r \in Tenants : set_update_flag(r) /\ UNCHANGED <<authvars, ssevars>>
    \/ \E r \in Tenants : check_for_updates("p1", r) /\ UNCHANGED <<authvars, ssevars>>

\* the store's clients, command by command
NextRace ==
    \/ \E r \in Tenants : set_update_flag(r) /\ UNCHANGED <<authvars, ssevars>>
    \/ \E p \in Clients, r \in Tenants : check_get(p, r) /\ UNCHANGED <<authvars, ssevars>>
    \/ \E p \in Clients : check_delete(p) /\ UNCHANGED <<authvars, ssevars>>

\* the update streams, the webhook's writes and the shutdown
NextSSE ==
    \/ \E c \in Clients, t \in StreamTokens : stream_reservations(c, t)
    \/ \E r \in Tenants : set_update_flag(r) /\ UNCHANGED <<authvars, ssevars>>
    \/ \E c \in Clients : event_generator_get(c)
    \/ \E c \in Clients : event_generator_update(c)
    \/ \E c \in Clients : event_generator_resume(c)
    \/ \E c \in Clients : event_generator_wake(c)
    \/ \E c \in Clients : client_disconnect(c)
    \/ \E c \in Clients : event_generator_except(c)
    \/ \E c \in Clients : event_generator_finally(c)
    \/ lifespan_cancel
    \/ lifespan_gather

SpecAuth == InitSession /\ [][NextAuth]_vars
SpecSeq == Init /\ [][NextSeq]_vars
SpecRace == Init /\ [][NextRace]_vars
SpecSSE == Init /\ [][NextSSE]_vars

\* the next step of the generator of stream c, wherever it stands
event_generator(c) ==
    \/ event_generator_get(c)
    \/ event_generator_update(c)
    \/ event_generator_resume(c)
    \/ event_generator_wake(c)
    \/ event_generator_except(c)
    \/ event_generator_finally(c)

\* the event loop runs every task that is ready: a generator that can take
\* its next step takes it, a sleep that is due ends, a cancellation that was
\* requested is delivered, a generator that was dropped is closed
SpecSSELive == SpecSSE /\ \A c \in Clients : WF_vars(event_generator(c))


\* ------------------------------------------------- the session's claims
\* the error kinds of the design, by the detail the code answers with
ErrorKind(out) ==
    IF out.exc = "ok" THEN "none"
    ELSE IF out.exc # "HTTPException" THEN "crash"
    ELSE IF out.detail \in {"Token not found", "Refresh token not found"} THEN "Unauthenticated"
    ELSE IF out.detail \in {"Could not validate credentials", "Invalid refresh token"}
         THEN "InvalidCredential"
    ELSE IF out.detail = "Refresh token expired" THEN "Expired"
    ELSE IF out.detail = "Invalid token" THEN "MissingClaim"
    ELSE IF out.detail = "Incorrect username or password" THEN "WrongPassword"
    ELSE "other"

\* a rejection the caller sees as unauthorized
Unauthorized(out) == out.exc = "HTTPException" /\ out.status \in {401, 403}

\* the last request presented the access cookie the client holds
VerifiedHeld == resp.op = "check_token" /\ jar.access.fmt = "jwt" /\ resp.req = jar.access

AccessLifetime == timedelta(0, ACCESS_TOKEN_EXPIRE_MINUTES).v
RefreshLifetime == timedelta(REFRESH_TOKEN_EXPIRE_DAYS, 0).v
RenewWindow == timedelta(REFRESH_TOKEN_RENEW_DAYS, 0).v

\* the instant, in ticks, that a token's "exp" names
ExpiresAt(token) == token.exp[1] * TicksPerSecond

\* C1: verify of the access token just issued for a principal, at the very
\* instant of its issue, succeeds and returns exactly that principal.
C1_RoundTrip ==
    (VerifiedHeld /\ resp.at = jar.access_at)
        => (resp.out.exc = "ok" /\ resp.body /\ resp.out.ret = jar.principal)

C1_Witness ==
    /\ VerifiedHeld /\ resp.at = jar.access_at
    /\ resp.at % TicksPerSecond # 0
    /\ resp.out.ret = [sub |-> "r1", role |-> "guest"]

\* C2 as stated: the access token issued at t0 expires at t0 + 15 minutes;
\* verify at t >= t0 + 15 minutes fails with Expired and returns no principal,
\* verify at t < t0 + 15 minutes succeeds.
C2_Original ==
    VerifiedHeld =>
        /\ ExpiresAt(jar.access) = jar.access_at + AccessLifetime
        /\ resp.at >= jar.access_at + AccessLifetime
              => (ErrorKind(resp.out) = "Expired" /\ resp.out.ret = NoPrincipal)
        /\ resp.at < jar.access_at + AccessLifetime => resp.out.exc = "ok"

\* C2 as amended: the access token issued at t0 has expires_at = t0 + 15
\* minutes cut down to a whole second; verify at t >= expires_at is rejected
\* (the decode fails as expired, which verify reports as InvalidCredential)
\* and returns no principal, verify at t < expires_at succeeds.
C2_Expiry ==
    VerifiedHeld =>
        LET expires_at == ((jar.access_at + AccessLifetime) \div TicksPerSecond) * TicksPerSecond
        IN  /\ ExpiresAt(jar.access) = expires_at
            /\ resp.at >= expires_at
                  => /\ Unauthorized(resp.out)
                     /\ ErrorKind(resp.out) = "InvalidCredential"
                     /\ resp.out.ret = NoPrincipal
                     /\ ~resp.body
            /\ resp.at < expires_at
                  => (resp.out.exc = "ok" /\ resp.out.ret = jar.principal)

\* a verify in the last fraction of a second of the 15 minutes is rejected
C2_Witness ==
    /\ VerifiedHeld
    /\ resp.at >= ExpiresAt(jar.access)
    /\ resp.at < jar.access_at + AccessLifetime
    /\ ErrorKind(resp.out) = "InvalidCredential"

\* a validly signed, unexpired token with all three claims
ValidAt(token, t) ==
    /\ token.fmt = "jwt" /\ token.key = SECRET_KEY
    /\ token.sub # None /\ token.role # None
    /\ token.exp # <<>> /\ t < ExpiresAt(token)

\* C3: refresh with a validly signed, unexpired refresh token succeeds and
\* returns a new access token for the embedded principal; the refresh token
\* comes back unchanged when expires_at - now >= 7 days, and as a different
\* token for the same principal with expires_at = now + 30 days otherwise.
C3_Rotation ==
    (resp.op = "refresh" /\ ValidAt(resp.req, resp.at)) =>
        LET remaining == ExpiresAt(resp.req) - resp.at
            principal == [sub |-> resp.req.sub, role |-> resp.req.role]
        IN  /\ resp.out.exc = "ok"
            /\ resp.out.access.fmt = "jwt"
            /\ resp.out.access.sub = principal.sub
            /\ resp.out.access.role = principal.role
            /\ ValidAt(resp.out.access, resp.at)
            /\ remaining >= RenewWindow => resp.out.refresh = resp.req
            /\ remaining < RenewWindow
                  => /\ resp.out.refresh # resp.req
                     /\ resp.out.refresh.sub = principal.sub
                     /\ resp.out.refresh.role = principal.role
                     /\ resp.out.refresh.exp = <<(resp.at + RefreshLifetime) \div TicksPerSecond>>

\* C4: refresh with an expired token fails with Expired, with a malformed or
\* badly signed one with InvalidCredential, with none with Unauthenticated;
\* a failing refresh returns no token and sets no cookie.
C4_RefreshFailures ==
    resp.op = "refresh" =>
        /\ Falsy(resp.req) => ErrorKind(resp.out) = "Unauthenticated"
        /\ (~Falsy(resp.req) /\ (resp.req.fmt # "jwt" \/ resp.req.key # SECRET_KEY))
              => ErrorKind(resp.out) = "InvalidCredential"
        /\ (resp.req.fmt = "jwt" /\ resp.req.key = SECRET_KEY /\ resp.req.exp # <<>>
                /\ ExpiresAt(resp.req) <= resp.at)
              => ErrorKind(resp.out) = "Expired"
        /\ resp.out.exc # "ok"
              => /\ resp.out.access = NoToken /\ resp.out.refresh = NoToken
                 /\ resp.set_access = NoToken /\ resp.set_refresh = NoToken

\* the refresh token the client was given at login, presented once expired
C4_Witness ==
    /\ resp.op = "refresh" /\ resp.req = jar.refresh /\ jar.refresh.fmt = "jwt"
    /\ ExpiresAt(resp.req) <= resp.at
    /\ ErrorKind(resp.out) = "Expired"
    /\ resp.set_access = NoToken /\ resp.set_refresh = NoToken

\* C5: verify fails with Unauthenticated without a token, InvalidCredential
\* when the decode fails (malformed, bad signature, expired), MissingClaim
\* when subject or role is absent; each failure is an unauthorized rejection
\* that returns no principal and keeps the handler body from running.
C5_VerifyGate ==
    resp.op = "check_token" =>
        LET signed == resp.req.fmt = "jwt" /\ resp.req.key = SECRET_KEY
            expired == resp.req.exp # <<>> /\ ExpiresAt(resp.req) <= resp.at
        IN  /\ Falsy(resp.req) => ErrorKind(resp.out) = "Unauthenticated"
            /\ (~Falsy(resp.req) /\ (~signed \/ expired))
                  => ErrorKind(resp.out) = "InvalidCredential"
            /\ (signed /\ ~expired /\ (resp.req.sub = None \/ resp.req.role = None))
                  => ErrorKind(resp.out) = "MissingClaim"
            /\ resp.out.exc # "ok"
                  => (Unauthorized(resp.out) /\ resp.out.ret = NoPrincipal /\ ~resp.body)
            /\ resp.out.exc = "ok" => (resp.out.ret.sub # None /\ resp.out.ret.role # None)

C5_Witness ==
    /\ resp.op = "check_token" /\ resp.req = NoRole
    /\ ErrorKind(resp.out) = "MissingClaim" /\ ~resp.body

\* C9: after a login with the right password verify of the access token
\* succeeds; more than 15 minutes later verify of it fails; and refresh with
\* the still unexpired refresh token then succeeds with an access token that
\* verify accepts for the original principal.
C9_Session ==
    /\ (VerifiedHeld /\ resp.at = jar.access_at) => resp.out.exc = "ok"
    /\ (VerifiedHeld /\ resp.at > jar.access_at + AccessLifetime) => resp.out.exc # "ok"
    /\ (resp.op = "refresh" /\ resp.req = jar.refresh /\ ValidAt(jar.refresh, resp.at)
            /\ resp.at > jar.refresh_at + AccessLifetime)
          => /\ resp.out.exc = "ok"
             /\ verify_token(resp.out.access, resp.at).ret = jar.principal

\* C10: a login for an unknown account and a login with the wrong password
\* both end, without an exception, in the same unauthorized outcome, and no
\* token is issued.
C10_Authenticate ==
    (resp.op = "login"
        /\ (resp.inp.restaurant_id \notin DOMAIN accounts_table
              \/ ~checkpw(resp.inp.password, accounts_table[resp.inp.restaurant_id].hashed_pw)))
      => /\ resp.out = HTTPException(401, "Incorrect username or password")
         /\ resp.set_access = NoToken /\ resp.set_refresh = NoToken

\* ------------------------------------------- the flag store's claims
\* the calls for the restaurant of call i that ended before it
Earlier(i) == {j \in 1..(i - 1) : log[j].rid = log[i].rid}

\* the last call before call i, for the same restaurant, was a set
PrecededBySet(i) ==
    \E j \in Earlier(i) : log[j].op = "set" /\ \A k \in Earlier(i) : k <= j

\* C6: used call after call, take returns true exactly when a set for the
\* same tenant came after the tenant's previous take (or the start): false
\* with no set before, true once after a set, false on the take right after.
C6_SequentialTake ==
    \A i \in 1..Len(log) : log[i].op = "take" => (log[i].ret <=> PrecededBySet(i))

\* set, take, take of one tenant: true, then false
C6_Witness ==
    \E i \in 1..Len(log) :
        /\ i + 2 <= Len(log)
        /\ log[i].op = "set"
        /\ log[i + 1] = LogEntry("take", log[i].rid, "p1", TRUE)
        /\ log[i + 2] = LogEntry("take", log[i].rid, "p1", FALSE)

\* C7: two clients' takes of a tenant after a single set for it give one
\* true and one false, however their commands interleave.
C7_AtomicTake ==
    \A r \in Tenants :
        LET sets == {i \in 1..Len(log) : log[i].op = "set" /\ log[i].rid = r}
            takes == {i \in 1..Len(log) : log[i].op = "take" /\ log[i].rid = r}
        IN  (/\ Cardinality(sets) = 1
             /\ Cardinality(takes) = 2
             /\ \A i \in sets, j \in takes : i < j
             /\ {log[j].client : j \in takes} = Clients)
                => Cardinality({j \in takes : log[j].ret}) = 1

\* -------------------------------------------- the update stream's claims
\* C8: a stream that is cancelled while polling is in the registry when the
\* cancellation arrives and out of it once it has closed, and shutdown ends
\* with the registry empty.
C8_CancelDeregisters ==
    /\ \A c \in Clients : (chan[c].cancel /\ chan[c].pc # "closed") => c \in sse_tasks
    /\ \A c \in Clients : chan[c].pc = "closed" => c \notin sse_tasks
    /\ lifespan_pc = "done" => sse_tasks = {}

\* a stream that was opened and has not reached "closed"
Open(c) == chan[c].pc \notin {"none", "closed"}

\* C11: every stream that was opened and has not yet closed has its task in
\* the registry.
C11_RegistryMembership ==
    \A c \in Clients : Open(c) => c \in sse_tasks

\* C12: shutdown cancels every stream that is open when it starts, and is
\* not complete while a stream is still open.
C12_ShutdownSequencing ==
    /\ lifespan_pc \in {"gather", "done"} => \A c \in Clients : Open(c) => chan[c].cancel
    /\ lifespan_pc = "done" => \A c \in Clients : ~Open(c)

\* C14: a client that logged in once and calls refresh with the refresh token
\* it holds, less than 7 days after its login or its last refresh, is never
\* turned away.
C14_PerpetualSession ==
    (/\ resp.op = "refresh"
     /\ jar.refresh.fmt = "jwt" /\ resp.req = jar.refresh
     /\ resp.at >= jar.access_at
     /\ resp.at - jar.access_at < RenewWindow)
        => resp.out.exc = "ok"

\* C19: every token that login or refresh issues carries a role of the enum
\* (admin, owner, employee).
C19_RoleDomain ==
    /\ (resp.op \in {"login", "refresh"} /\ resp.out.exc = "ok")
          => (resp.set_access.role \in Role /\ resp.set_refresh.role \in Role)
    /\ jar.access.fmt = "jwt" => jar.access.role \in Role
    /\ jar.refresh.fmt = "jwt" => jar.refresh.role \in Role

\* the calls of set_update_flag for a restaurant so far
Sets(r) == {i \in 1..Len(log) : log[i].op = "set" /\ log[i].rid = r}

\* the takes of a client that returned true so far
TrueTakes(c) == {i \in 1..Len(log) : log[i].op = "take" /\ log[i].client = c /\ log[i].ret}

RECURSIVE SumUpdates(_)
SumUpdates(S) ==
    IF S = {} THEN 0
    ELSE LET c == CHOOSE x \in S : TRUE IN chan[c].updates + SumUpdates(S \ {c})

\* the update events pushed so far on the streams of a restaurant
Updates(r) == SumUpdates({c \in Clients : chan[c].rid = r})

\* C15: for each tenant the update events emitted on all its streams are at
\* most as many as the sets made so far, and a stream has emitted exactly as
\* many update events as takes of its own returned true.
C15_AtMostOnce ==
    /\ \A r \in Tenants : Updates(r) <= Cardinality(Sets(r))
    /\ \A c \in Clients : chan[c].updates = Cardinality(TrueTakes(c))

\* the last call for the restaurant of call i that ended before it
LastBefore(i) == CHOOSE j \in Earlier(i) : \A k \in Earlier(i) : k <= j

\* the two calls before call i, for the same restaurant, were both sets
TwoSetsBefore(i) ==
    /\ Earlier(i) # {}
    /\ log[LastBefore(i)].op = "set"
    /\ Earlier(LastBefore(i)) # {}
    /\ log[LastBefore(LastBefore(i))].op = "set"

\* stream c is the only stream there has been for restaurant r
SoleStream(r, c) == chan[c].rid = r /\ \A d \in Clients \ {c} : chan[d].rid # r

\* C16: when two or more sets for a tenant come between two polls of the
\* tenant's only stream, its next poll finds the flag and emits one update
\* event, and the poll after that, with no set in between, emits none.
C16_Coalescing ==
    \A r \in Tenants, c \in Clients :
        SoleStream(r, c) =>
            /\ chan[c].updates = Cardinality(TrueTakes(c))
            /\ \A j \in 1..Len(log) :
                  (log[j].op = "take" /\ log[j].rid = r /\ TwoSetsBefore(j))
                      => /\ log[j].ret
                         /\ \A k \in 1..Len(log) :
                               (log[k].op = "take" /\ log[k].rid = r
                                   /\ Earlier(k) # {} /\ LastBefore(k) = j)
                                   => ~log[k].ret

C16_Witness ==
    \E r \in Tenants, c \in Clients :
        /\ SoleStream(r, c)
        /\ log = <<LogEntry("set", r, "webhook", FALSE), LogEntry("set", r, "webhook", FALSE),
                   LogEntry("take", r, c, TRUE), LogEntry("take", r, c, FALSE)>>
        /\ chan[c].updates = 1

\* what a stream takes is the flag of the tenant its cookie names
TakesOwnFlag ==
    \A c \in Clients :
        chan[c].pc # "none" =>
            /\ chan[c].cookie.sub \in Tenants
            /\ chan[c].rid = chan[c].cookie.sub
            /\ call[c].pc = "got" => call[c].rid = chan[c].cookie.sub
            /\ \A i \in 1..Len(log) :
                  (log[i].op = "take" /\ log[i].client = c)
                      => /\ log[i].rid = chan[c].cookie.sub
                         /\ log[i].ret => \E j \in 1..(i - 1) :
                                              log[j].op = "set" /\ log[j].rid = chan[c].cookie.sub

\* a step changes a tenant's flag only as a set or a take for that tenant,
\* and a stream emits an update event only with a true take of its tenant
OwnFlagOnly ==
    /\ \A r \in Tenants :
          redis_db'[flag_key(r)] # redis_db[flag_key(r)]
              => (Len(log') = Len(log) + 1 /\ log'[Len(log')].rid = r)
    /\ \A c \in Clients :
          chan'[c].updates # chan[c].updates
              => /\ Len(log') = Len(log) + 1
                 /\ log'[Len(log')] = LogEntry("take", chan[c].cookie.sub, c, TRUE)

\* C20: set(A) and take(A) leave every other tenant's flag as it is, and a
\* stream opened with a token for tenant A only takes A's flag: it clears no
\* other tenant's flag and emits no update event for another tenant's set.
C20_TenantIsolation == []TakesOwnFlag /\ [][OwnFlagOnly]_vars

\* a stream of r1 has taken r1's flag while r2's flag is set and stays set
C20_Witness ==
    \E c \in Clients :
        /\ chan[c].cookie.sub = "r1" /\ chan[c].updates = 1
        /\ redis_db[flag_key("r2")] = bytes("1")
        /\ redis_db[flag_key("r1")] = <<>>
        /\ \E i \in 1..Len(log) : i < Len(log) /\ log[i].op = "set" /\ log[i].rid = "r2"
                                  /\ log[Len(log)] = LogEntry("take", "r1", c, TRUE)

FlagSet(r) == redis_db[flag_key(r)] = bytes("1")
Polling(c, r) == chan[c].rid = r /\ Open(c) /\ ~chan[c].cancel
\* the recorded history has no room for another call
HistoryFull == Begun >= MaxOps
Logged(e) == Len(log') = Len(log) + 1 /\ log'[Len(log')] = e

\* a flag leaves the store only in the true take of a stream of its tenant,
\* which emits an update event; a take that finds the flag set is a true take
FlagKept ==
    \A r \in Tenants :
        /\ (FlagSet(r) /\ ~FlagSet(r)')
              => \E c \in Clients :
                    /\ chan[c].rid = r
                    /\ Logged(LogEntry("take", r, c, TRUE))
                    /\ chan'[c].updates = chan[c].updates + 1
        /\ (\E c \in Clients : Logged(LogEntry("take", r, c, FALSE))) => ~FlagSet(r)

\* C17: a flag set for a tenant while a stream of that tenant is open and
\* not cancelled is eventually taken, with an update event on a stream of the
\* tenant, for as long as such a stream polls (and the recorded history has
\* room); a flag stays set until the true take of a stream of its tenant.
C17_NotificationLiveness ==
    /\ [][FlagKept]_vars
    /\ \A r \in Tenants :
          (FlagSet(r) /\ \E c \in Clients : Polling(c, r))
              ~> (~FlagSet(r) \/ ~(\E c \in Clients : Polling(c, r)) \/ HistoryFull)

\* the flag was set, a stream of the tenant took it and emitted its update
\* event, and is still open and not cancelled
C17_Witness ==
    \E r \in Tenants, c \in Clients :
        /\ Polling(c, r)
        /\ log = <<LogEntry("set", r, "webhook", FALSE), LogEntry("take", r, c, TRUE)>>
        /\ ~FlagSet(r)
        /\ chan[c].updates = 1 /\ chan[c].pc = "yield_update"

\* a cancelled stream stays cancelled, takes nothing and emits no update
AfterCancel ==
    \A c \in Clients :
        chan[c].cancel
            => /\ chan'[c].cancel
               /\ chan'[c].updates = chan[c].updates
               /\ call'[c] = call[c]
               /\ \A r \in Tenants, b \in BOOLEAN : ~Logged(LogEntry("take", r, c, b))

\* C18: a cancelled stream performs no further take and emits no further
\* update event, emits at most one final event, and eventually is closed.
C18_CooperativeCancellation ==
    /\ [][AfterCancel]_vars
    /\ [](\A c \in Clients : chan[c].finals <= 1)
    /\ \A c \in Clients : chan[c].cancel ~> (chan[c].pc = "closed")

\* a stream that emitted an update, was cancelled in its sleep, emitted the
\* final event and is closed
C18_Witness ==
    \E c \in Clients :
        /\ chan[c].cancel /\ chan[c].pc = "closed"
        /\ chan[c].finals = 1 /\ chan[c].updates = 1

====
